---- MODULE Spec2Model ----
(***************************************************************************)
(* State-machine model of the safaraya-service HTTP API: the handlers of   *)
(* handler.go, the repository functions of main.go and the row store they  *)
(* talk to (tables users, registration, file_upload).                      *)
(*                                                                         *)
(* A byte string is modelled by its length and its leading magic bytes,    *)
(* which is all the handlers look at; two byte strings are equal iff both  *)
(* agree.  Go pointers to string and int are modelled as sequences of length *)
(* at most one, nullable columns as sql.Null* records with a Valid flag.   *)
(***************************************************************************)
EXTENDS Integers, Sequences, FiniteSets, TLC

\* ------------------------------------------------------------------ bounds
\* Rows the store holds, the inserts of uploads in flight included.
MaxRows == 3

\* ------------------------------------------------------- program constants
maxUploadSize == 5242880
bodySlack     == 1024

serviceHost == "https://safaraya-service.onrender.com"

\* ------------------------------------------------------------ Go pointers
Nil      == <<>>
Ptr(v)   == <<v>>
Deref(p) == p[1]

\* -------------------------------------------------- Nullable Mapping Codec
\* sql.NullString / sql.NullInt32: the zero value has Valid = FALSE.
NullString == [valid |-> FALSE, val |-> ""]
NullInt32  == [valid |-> FALSE, val |-> 0]

\* Mutant: an empty string is bound as NULL.
BindString_EmptyAsNull(p) ==
    IF p = Nil \/ Deref(p) = "" THEN NullString ELSE [valid |-> TRUE, val |-> Deref(p)]

\* pgx binds a nil pointer argument as SQL NULL, a non-nil one as its value.
BindString(p) == IF p = Nil THEN NullString ELSE [valid |-> TRUE, val |-> Deref(p)]

BindInt(p) == IF p = Nil THEN NullInt32 ELSE [valid |-> TRUE, val |-> Deref(p)]

\* "if name.Valid { u.Name = &name.String }"
ScanString(col) == IF col.valid THEN Ptr(col.val) ELSE Nil

\* "if age.Valid { v := int(age.Int32); u.Age = &v }"
ScanInt(col) == IF col.valid THEN Ptr(col.val) ELSE Nil

\* ------------------------------------------------------------ byte strings
Bytes(n, magic) == [len |-> n, magic |-> magic]
EmptyBytes == Bytes(0, "")

\* A bytea column: NULL or a byte string.
NullBytes == [valid |-> FALSE, val |-> EmptyBytes]

\* Scanning a bytea column into []byte: NULL scans to nil, of length 0.
ScanBytes(col) == IF col.valid THEN col.val ELSE EmptyBytes

\* http.DetectContentType on the leading bytes.
DetectContentType(b) ==
    IF b.len >= 5 /\ b.magic = "%PDF-" THEN "application/pdf"
    ELSE IF b.len > 0 /\ b.magic = "bin" THEN "application/octet-stream"
    ELSE "text/plain; charset=utf-8"

\* Mutant: nothing is trimmed.
TrimSpace_Identity(s) == s

\* strings.TrimSpace, on the strings the requests carry.
TrimSpace(s) ==
    CASE s = " "      -> ""
      [] s = " Ann "  -> "Ann"
      [] s = " idn "  -> "idn"
      [] s = " u1 "   -> "u1"
      [] OTHER        -> s

\* strconv.ParseInt(s, 10, 64) and strconv.FormatInt(n, 10) on path segments.
Digits == <<"1", "2", "3", "4", "5", "6", "7", "8", "9">>
DecimalStrings == {Digits[i] : i \in DOMAIN Digits}
ParseIntOk(s) == s \in DecimalStrings
ParseInt(s) == IF ParseIntOk(s) THEN CHOOSE n \in DOMAIN Digits : Digits[n] = s ELSE 0
FormatInt(n) == IF n \in DOMAIN Digits THEN Digits[n] ELSE "0"

\* uuid.Parse: the well-formed identifiers.
UUIDs == {"u1", "u2"}
FileUUIDs == {"f1", "f2"}
uuidParseOk(s) == s \in UUIDs \cup FileUUIDs
uuidNil == "00000000"


\* ------------------------------------------------------------------ state
VARIABLES
    users,          \* table users: id -> row
    registration,   \* table registration: registration_id -> row
    file_upload,    \* table file_upload: file_id -> row
    inflight,       \* registration-file uploads between their two statements
    lastCV,         \* history: user id -> bytes of the last upload answered 201
    resp            \* the request served last and the response written to it

vars == <<users, registration, file_upload, inflight, lastCV, resp>>

\* ---------------------------------------------------------------- requests
Methods == {"GET", "POST", "PUT"}

\* An empty body: it decodes neither as JSON nor as a multipart form.
NoJSON == [ok |-> FALSE, kind |-> "none"]
NoForm ==
    [ok |-> FALSE, kind |-> "none", overhead |-> 0, registration_id |-> "",
     file_type |-> "", hasFile |-> FALSE, filename |-> "", partContentType |-> "",
     file |-> [len |-> 0, magic |-> ""]]

Request(method, path, json, form) ==
    [method |-> method, path |-> path, json |-> json, form |-> form]

\* ---------------------------------------------------------------- responses
NoHeaders == [contentDisposition |-> "", contentLength |-> Nil]

Response(handler, r, status, ctype, hdr, body, stmts) ==
    [handler |-> handler, req |-> r, status |-> status, contentType |-> ctype,
     headers |-> hdr, body |-> body, stmts |-> stmts]

\* w.Header().Set("Content-Type", "application/json"); w.WriteHeader(status);
\* json.NewEncoder(w).Encode(map[string]string{"error": code})
ErrorResponse(handler, r, status, code, stmts) ==
    Response(handler, r, status, "application/json", NoHeaders,
             [error |-> code], stmts)

IsError(rsp, status, code) ==
    /\ rsp.status = status
    /\ rsp.contentType = "application/json"
    /\ rsp.body = [error |-> code]

\* ------------------------------------------------------------------ router
\* http.ServeMux of main: exact patterns and subtree patterns.
Route(path) ==
    IF path = <<"ping">> THEN "pingHandler"
    ELSE IF path = <<"users">> THEN "usersHandler"
    ELSE IF Len(path) >= 1 /\ path[1] = "users" THEN "userCVHandler"
    ELSE IF path = <<"registrations">> THEN "registrationsHandler"
    ELSE IF Len(path) >= 1 /\ path[1] = "registrations" THEN "registrationDetailHandler"
    ELSE IF path = <<"registration-files">> THEN "registrationFilesHandler"
    ELSE IF Len(path) >= 1 /\ path[1] = "registration-files" THEN "registrationFileHandler"
    ELSE "notFoundHandler"

\* The store's now() as a column default: a logical time that orders the
\* inserts into one table.
now(table) == Cardinality(DOMAIN table) + 1

\* ------------------------------------------------------------- users table
UserIDs == DOMAIN users
RegistrationIDs == DOMAIN registration
FileIDs == DOMAIN file_upload

\* The rows stored and about to be stored; inserts stop at MaxRows.
Rows ==
    Cardinality(UserIDs) + Cardinality(RegistrationIDs) + Cardinality(FileIDs)
    + Cardinality(inflight)

\* SELECT id, name, age, created_at, cv_file IS NOT NULL AS has_cv FROM users
fetchUsers ==
    [i \in 1..Cardinality(UserIDs) |->
        [ID |-> i,
         Name |-> ScanString(users[i].name),
         Age |-> ScanInt(users[i].age),
         CreatedAt |-> users[i].created_at,
         HasCV |-> users[i].cv_file.valid,
         CvFileDownloadURL |-> Nil]]

HasHTTPPrefix(s) == s = "https://safaraya-service.onrender.com"

buildDownloadURL(r, userID) ==
    LET base == IF HasHTTPPrefix(serviceHost) THEN serviceHost ELSE "http://localhost:8080"
    IN  <<base, "/users/", FormatInt(userID), "/cv">>

\* encoding/json of a User: HasCV is tagged "-", nil pointers are omitted.
UserJSON(u) ==
    [id |-> u.ID, name |-> u.Name, age |-> u.Age, created_at |-> u.CreatedAt,
     cv_file_download_url |-> u.CvFileDownloadURL]

\* Mutant: the URL is filled in for every user.
WithDownloadURL_Always(r, u) ==
    [u EXCEPT !.CvFileDownloadURL = Ptr(buildDownloadURL(r, u.ID))]

\* The loop of getUsersHandler that fills in the download URLs.
WithDownloadURL(r, u) ==
    IF u.HasCV THEN [u EXCEPT !.CvFileDownloadURL = Ptr(buildDownloadURL(r, u.ID))]
    ELSE u

getUsersBody(r, us) == [i \in DOMAIN us |-> UserJSON(WithDownloadURL(r, us[i]))]

getUsersHandler(r, dbErr) ==
    /\ resp' = IF dbErr
               THEN ErrorResponse("getUsersHandler", r, 500, "internal_error",
                                  <<"SELECT users">>)
               ELSE Response("getUsersHandler", r, 200, "application/json", NoHeaders,
                             getUsersBody(r, fetchUsers), <<"SELECT users">>)
    /\ UNCHANGED <<users, registration, file_upload, inflight, lastCV>>

\* The row INSERT INTO users (name, age) VALUES ($1, $2) creates.
NewUserRow(req) ==
    [name |-> BindString(req.name), age |-> BindInt(req.age),
     cv_file |-> NullBytes, created_at |-> now(users)]

\* row.Scan returns an error: the store refused or lost the statement, the
\* deadline passed, or an argument could not be bound.  No row is inserted.
insertUserFails(req, dbErr) == dbErr

\* RETURNING id, name, age, created_at, scanned back into a User.
insertUserResult(id, row) ==
    [ID |-> id, Name |-> ScanString(row.name), Age |-> ScanInt(row.age),
     CreatedAt |-> row.created_at, HasCV |-> FALSE, CvFileDownloadURL |-> Nil]

createUserHandler(r, dbErr) ==
    IF ~r.json.ok
    THEN /\ resp' = ErrorResponse("createUserHandler", r, 400, "invalid_json", <<>>)
         /\ UNCHANGED <<users, registration, file_upload, inflight, lastCV>>
    ELSE IF insertUserFails(r.json, dbErr)
    THEN /\ resp' = ErrorResponse("createUserHandler", r, 500, "internal_error",
                                  <<"INSERT users">>)
         /\ UNCHANGED <<users, registration, file_upload, inflight, lastCV>>
    ELSE LET id  == Cardinality(UserIDs) + 1
             row == NewUserRow(r.json)
         IN  /\ Rows < MaxRows
             /\ users' = [i \in UserIDs \cup {id} |-> IF i = id THEN row ELSE users[i]]
             /\ resp' = Response("createUserHandler", r, 201, "application/json",
                                 NoHeaders, UserJSON(insertUserResult(id, row)),
                                 <<"INSERT users">>)
             /\ UNCHANGED <<registration, file_upload, inflight, lastCV>>

MethodNotAllowed(handler, r) ==
    /\ resp' = ErrorResponse(handler, r, 405, "method_not_allowed", <<>>)
    /\ UNCHANGED <<users, registration, file_upload, inflight, lastCV>>

usersHandler(r, dbErr) ==
    /\ Route(r.path) = "usersHandler"
    /\ IF r.method = "GET" THEN getUsersHandler(r, dbErr)
       ELSE IF r.method = "POST" THEN createUserHandler(r, dbErr)
       ELSE MethodNotAllowed("usersHandler", r)


notFoundResponse(r) == ErrorResponse("notFoundHandler", r, 404, "not_found", <<>>)

NotFound(r) ==
    /\ resp' = notFoundResponse(r)
    /\ UNCHANGED <<users, registration, file_upload, inflight, lastCV>>

\* --------------------------------------------------- File Ingestion Pipeline
\* A multipart body: whether it is well formed, the bytes it spends on
\* boundaries, part headers and text fields (overhead), the text fields, and
\* the part named "file" with its filename, its Content-Type header and bytes.
MultipartForm(ok, overhead, regId, fileType, hasFile, filename, ctype, file) ==
    [ok |-> ok, kind |-> "multipart", overhead |-> overhead,
     registration_id |-> regId, file_type |-> fileType,
     hasFile |-> hasFile, filename |-> filename, partContentType |-> ctype,
     file |-> file]

BodyLength(form) == form.overhead + (IF form.hasFile THEN form.file.len ELSE 0)

\* r.Body = http.MaxBytesReader(w, r.Body, maxUploadSize+1024);
\* r.ParseMultipartForm(maxUploadSize) fails on a malformed body and on a body
\* the reader cuts off; a file part over maxMemory is spooled to disk, not refused.
ParseMultipartFormFails(form) ==
    ~form.ok \/ BodyLength(form) > maxUploadSize + bodySlack

\* header.Size > maxUploadSize || n > maxUploadSize, n the bytes read through
\* io.LimitReader(file, maxUploadSize+1).
FileTooLarge(form) ==
    LET n == IF form.file.len > maxUploadSize + 1 THEN maxUploadSize + 1
             ELSE form.file.len
    IN  form.file.len > maxUploadSize \/ n > maxUploadSize

\* Mutant: "||" for "&&", so one mismatch is enough to reject.
InvalidFileType_Either(form) ==
    \/ DetectContentType(form.file) # "application/pdf"
    \/ form.partContentType # "application/pdf"

\* mimeType != "application/pdf" && contentTypeHeader != "application/pdf"
InvalidFileType(form) ==
    /\ DetectContentType(form.file) # "application/pdf"
    /\ form.partContentType # "application/pdf"

\* Mutant: the empty_file check is missing.
uploadUserCVCheck_NoEmptyCheck(form) ==
    IF ParseMultipartFormFails(form) THEN "invalid_form"
    ELSE IF ~form.hasFile THEN "file_required"
    ELSE IF FileTooLarge(form) THEN "file_too_large"
    ELSE IF InvalidFileType(form) THEN "invalid_file_type"
    ELSE "ok"

\* The checks of uploadUserCVHandler before storage, in order.
uploadUserCVCheck(form) ==
    IF ParseMultipartFormFails(form) THEN "invalid_form"
    ELSE IF ~form.hasFile THEN "file_required"
    ELSE IF FileTooLarge(form) THEN "file_too_large"
    ELSE IF form.file.len = 0 THEN "empty_file"
    ELSE IF InvalidFileType(form) THEN "invalid_file_type"
    ELSE "ok"

\* ------------------------------------------------------------------ user CV
\* Mutant: the UPDATE is taken to have matched a row.
saveUserCVRowsAffected_One(userID) == 1

\* UPDATE users SET cv_file = $2 WHERE id = $1: the rows affected.
saveUserCVRowsAffected(userID) == IF userID \in UserIDs THEN 1 ELSE 0

\* Mutant: the UPDATE also resets created_at.
uploadUserCVHandler_TouchesCreatedAt(r, userID, dbErr) ==
    LET code == uploadUserCVCheck(r.form)
        h    == "uploadUserCVHandler"
        stmt == <<"UPDATE users SET cv_file">>
    IN  IF code # "ok"
        THEN /\ resp' = ErrorResponse(h, r, 400, code, <<>>)
             /\ UNCHANGED <<users, registration, file_upload, inflight, lastCV>>
        ELSE IF dbErr
        THEN /\ resp' = ErrorResponse(h, r, 500, "internal_error", stmt)
             /\ UNCHANGED <<users, registration, file_upload, inflight, lastCV>>
        ELSE IF saveUserCVRowsAffected(userID) = 0
        THEN /\ resp' = ErrorResponse(h, r, 404, "user_not_found", stmt)
             /\ UNCHANGED <<users, registration, file_upload, inflight, lastCV>>
        ELSE /\ users' = [users EXCEPT ![userID].cv_file =
                                           [valid |-> TRUE, val |-> r.form.file],
                                       ![userID].created_at = now(users)]
             /\ lastCV' = [lastCV EXCEPT ![userID] = Ptr(r.form.file)]
             /\ resp' = Response(h, r, 201, "application/json", NoHeaders,
                                 [status |-> "uploaded"], stmt)
             /\ UNCHANGED <<registration, file_upload, inflight>>

\* Mutant: the UPDATE is not atomic: over an existing CV it leaves the length
\* of the new bytes with the leading bytes of the old.
uploadUserCVHandler_TornWrite(r, userID, dbErr) ==
    LET code == uploadUserCVCheck(r.form)
        h    == "uploadUserCVHandler"
        stmt == <<"UPDATE users SET cv_file">>
    IN  IF code # "ok"
        THEN /\ resp' = ErrorResponse(h, r, 400, code, <<>>)
             /\ UNCHANGED <<users, registration, file_upload, inflight, lastCV>>
        ELSE IF dbErr
        THEN /\ resp' = ErrorResponse(h, r, 500, "internal_error", stmt)
             /\ UNCHANGED <<users, registration, file_upload, inflight, lastCV>>
        ELSE IF saveUserCVRowsAffected(userID) = 0
        THEN /\ resp' = ErrorResponse(h, r, 404, "user_not_found", stmt)
             /\ UNCHANGED <<users, registration, file_upload, inflight, lastCV>>
        ELSE /\ users' = [users EXCEPT ![userID].cv_file =
                              [valid |-> TRUE,
                               val |-> IF users[userID].cv_file.valid
                                       THEN Bytes(r.form.file.len,
                                                  users[userID].cv_file.val.magic)
                                       ELSE r.form.file]]
             /\ lastCV' = [lastCV EXCEPT ![userID] = Ptr(r.form.file)]
             /\ resp' = Response(h, r, 201, "application/json", NoHeaders,
                                 [status |-> "uploaded"], stmt)
             /\ UNCHANGED <<registration, file_upload, inflight>>

uploadUserCVHandler(r, userID, dbErr) ==
    LET code == uploadUserCVCheck(r.form)
        h    == "uploadUserCVHandler"
        stmt == <<"UPDATE users SET cv_file">>
    IN  IF code # "ok"
        THEN /\ resp' = ErrorResponse(h, r, 400, code, <<>>)
             /\ UNCHANGED <<users, registration, file_upload, inflight, lastCV>>
        ELSE IF dbErr
        THEN /\ resp' = ErrorResponse(h, r, 500, "internal_error", stmt)
             /\ UNCHANGED <<users, registration, file_upload, inflight, lastCV>>
        ELSE IF saveUserCVRowsAffected(userID) = 0
        THEN /\ resp' = ErrorResponse(h, r, 404, "user_not_found", stmt)
             /\ UNCHANGED <<users, registration, file_upload, inflight, lastCV>>
        ELSE /\ users' = [users EXCEPT ![userID].cv_file =
                                           [valid |-> TRUE, val |-> r.form.file]]
             /\ lastCV' = [lastCV EXCEPT ![userID] = Ptr(r.form.file)]
             /\ resp' = Response(h, r, 201, "application/json", NoHeaders,
                                 [status |-> "uploaded"], stmt)
             /\ UNCHANGED <<registration, file_upload, inflight>>

\* Mutant: the row is found but its column is never scanned into cv.
getUserCV_NoScan(userID) ==
    IF userID \in UserIDs
    THEN [err |-> "", cv |-> EmptyBytes]
    ELSE [err |-> "errUserNotFound", cv |-> EmptyBytes]

\* Mutant: a row whose cv_file is NULL is reported as no row.
getUserCV_NullIsMissing(userID) ==
    IF userID \in UserIDs /\ users[userID].cv_file.valid
    THEN [err |-> "", cv |-> ScanBytes(users[userID].cv_file)]
    ELSE [err |-> "errUserNotFound", cv |-> EmptyBytes]

\* SELECT cv_file FROM users WHERE id = $1, scanned into []byte.
getUserCV(userID) ==
    IF userID \in UserIDs
    THEN [err |-> "", cv |-> ScanBytes(users[userID].cv_file)]
    ELSE [err |-> "errUserNotFound", cv |-> EmptyBytes]

downloadUserCVHandler(r, userID, dbErr) ==
    LET got  == getUserCV(userID)
        h    == "downloadUserCVHandler"
        stmt == <<"SELECT cv_file FROM users">>
    IN  /\ resp' =
             IF dbErr THEN ErrorResponse(h, r, 500, "internal_error", stmt)
             ELSE IF got.err = "errUserNotFound"
             THEN ErrorResponse(h, r, 404, "user_not_found", stmt)
             ELSE IF got.cv.len = 0
             THEN ErrorResponse(h, r, 404, "cv_not_found", stmt)
             ELSE Response(h, r, 200, "application/pdf",
                           [contentDisposition |->
                                <<"attachment; filename=", "cv-", FormatInt(userID), ".pdf">>,
                            contentLength |-> Nil],
                           got.cv, stmt)
        /\ UNCHANGED <<users, registration, file_upload, inflight, lastCV>>

userCVHandler(r, dbErr) ==
    /\ Route(r.path) = "userCVHandler"
    /\ IF Len(r.path) # 3 \/ r.path[1] # "users" \/ r.path[3] # "cv"
       THEN NotFound(r)
       ELSE IF ~ParseIntOk(r.path[2])
       THEN /\ resp' = ErrorResponse("userCVHandler", r, 400, "invalid_user_id", <<>>)
            /\ UNCHANGED <<users, registration, file_upload, inflight, lastCV>>
       ELSE IF r.method = "GET" THEN downloadUserCVHandler(r, ParseInt(r.path[2]), dbErr)
       ELSE IF r.method = "POST" THEN uploadUserCVHandler(r, ParseInt(r.path[2]), dbErr)
       ELSE MethodNotAllowed("userCVHandler", r)


\* ------------------------------------------------------------ registrations

\* Mutant: the bound is checked with "< 0", so a count of 0 passes.
createRegistrationCheck_AcceptsZero(req) ==
    IF TrimSpace(req.full_name) = "" THEN "full_name_required"
    ELSE IF TrimSpace(req.whatsapp_number) = "" THEN "whatsapp_number_required"
    ELSE IF req.applicant_count # Nil /\ Deref(req.applicant_count) < 0
    THEN "invalid_applicant_count"
    ELSE "ok"

\* Mutant: the count is checked before the two required strings.
createRegistrationCheck_CountFirst(req) ==
    IF req.applicant_count # Nil /\ Deref(req.applicant_count) < 1
    THEN "invalid_applicant_count"
    ELSE IF TrimSpace(req.full_name) = "" THEN "full_name_required"
    ELSE IF TrimSpace(req.whatsapp_number) = "" THEN "whatsapp_number_required"
    ELSE "ok"

\* The field checks of createRegistrationHandler, in order.
createRegistrationCheck(req) ==
    IF TrimSpace(req.full_name) = "" THEN "full_name_required"
    ELSE IF TrimSpace(req.whatsapp_number) = "" THEN "whatsapp_number_required"
    ELSE IF req.applicant_count # Nil /\ Deref(req.applicant_count) < 1
    THEN "invalid_applicant_count"
    ELSE "ok"

\* Mutant: an omitted count defaults to 0.
applicantCountOf_DefaultZero(req) ==
    IF req.applicant_count # Nil THEN Deref(req.applicant_count) ELSE 0

\* "applicantCount := 1; if req.ApplicantCount != nil { ... }"
applicantCountOf(req) ==
    IF req.applicant_count # Nil THEN Deref(req.applicant_count) ELSE 1

\* The row INSERT INTO registration (...) VALUES ($1..$7) creates.
NewRegistrationRow(req) ==
    [full_name |-> req.full_name,
     job_title |-> BindString(req.job_title),
     address_full |-> BindString(req.address_full),
     whatsapp_number |-> req.whatsapp_number,
     note |-> BindString(req.note),
     applicant_count |-> applicantCountOf(req),
     visa_type |-> BindString(req.visa_type),
     created_at |-> now(registration),
     updated_at |-> now(registration)]

\* A registration row scanned into a Registration and encoded as JSON.
RegistrationJSON(id, row) ==
    [registration_id |-> id,
     full_name |-> row.full_name,
     job_title |-> ScanString(row.job_title),
     address_full |-> ScanString(row.address_full),
     whatsapp_number |-> row.whatsapp_number,
     note |-> ScanString(row.note),
     applicant_count |-> row.applicant_count,
     visa_type |-> ScanString(row.visa_type),
     created_at |-> row.created_at,
     updated_at |-> row.updated_at]

createRegistrationHandler(r, id, dbErr) ==
    LET h    == "createRegistrationHandler"
        stmt == <<"INSERT INTO registration">>
    IN  IF ~r.json.ok
        THEN /\ resp' = ErrorResponse(h, r, 400, "invalid_json", <<>>)
             /\ UNCHANGED <<users, registration, file_upload, inflight, lastCV>>
        ELSE IF createRegistrationCheck(r.json) # "ok"
        THEN /\ resp' = ErrorResponse(h, r, 400, createRegistrationCheck(r.json), <<>>)
             /\ UNCHANGED <<users, registration, file_upload, inflight, lastCV>>
        ELSE IF dbErr
        THEN /\ resp' = ErrorResponse(h, r, 500, "internal_error", stmt)
             /\ UNCHANGED <<users, registration, file_upload, inflight, lastCV>>
        ELSE LET row == NewRegistrationRow(r.json)
             IN  /\ id \notin RegistrationIDs
                 /\ Rows < MaxRows
                 /\ registration' =
                        [i \in RegistrationIDs \cup {id} |->
                            IF i = id THEN row ELSE registration[i]]
                     /\ resp' = Response(h, r, 201, "application/json", NoHeaders,
                                     RegistrationJSON(id, row), stmt)
                 /\ UNCHANGED <<users, file_upload, inflight, lastCV>>

registrationsHandler(r, id, dbErr) ==
    /\ Route(r.path) = "registrationsHandler"
    /\ IF r.method = "POST" THEN createRegistrationHandler(r, id, dbErr)
       ELSE MethodNotAllowed("registrationsHandler", r)

\* SELECT ... FROM registration WHERE registration_id = $1
getRegistrationByID(id) ==
    IF id \in RegistrationIDs
    THEN [err |-> "", id |-> id]
    ELSE [err |-> "errRegistrationNotFound", id |-> uuidNil]

getRegistrationHandler(r, registrationID, dbErr) ==
    LET got  == getRegistrationByID(registrationID)
        h    == "getRegistrationHandler"
        stmt == <<"SELECT FROM registration">>
    IN  /\ resp' =
             IF dbErr THEN ErrorResponse(h, r, 500, "internal_error", stmt)
             ELSE IF got.err = "errRegistrationNotFound"
             THEN ErrorResponse(h, r, 404, "registration_not_found", stmt)
             ELSE Response(h, r, 200, "application/json", NoHeaders,
                           RegistrationJSON(got.id, registration[got.id]), stmt)
        /\ UNCHANGED <<users, registration, file_upload, inflight, lastCV>>

registrationDetailHandler(r, dbErr) ==
    /\ Route(r.path) = "registrationDetailHandler"
    /\ IF Len(r.path) < 2 \/ r.path[1] # "registrations"
       THEN NotFound(r)
       ELSE IF ~uuidParseOk(r.path[2])
       THEN /\ resp' = ErrorResponse("registrationDetailHandler", r, 400,
                                     "invalid_registration_id", <<>>)
            /\ UNCHANGED <<users, registration, file_upload, inflight, lastCV>>
       ELSE IF Len(r.path) = 2
       THEN IF r.method = "GET" THEN getRegistrationHandler(r, r.path[2], dbErr)
            ELSE MethodNotAllowed("registrationDetailHandler", r)
       ELSE NotFound(r)


\* -------------------------------------------------------- registration files

\* Mutant: the file part is examined before the text fields.
registrationFilesCheck_FileFirst(form) ==
    IF ParseMultipartFormFails(form) THEN "invalid_form"
    ELSE IF ~form.hasFile THEN "file_required"
    ELSE IF FileTooLarge(form) THEN "file_too_large"
    ELSE IF form.file.len = 0 THEN "empty_file"
    ELSE IF TrimSpace(form.registration_id) = "" THEN "registration_id_required"
    ELSE IF ~uuidParseOk(TrimSpace(form.registration_id)) THEN "invalid_registration_id"
    ELSE IF TrimSpace(form.file_type) = "" THEN "file_type_required"
    ELSE "ok"

\* The checks of registrationFilesHandler before storage, in order.
registrationFilesCheck(form) ==
    IF ParseMultipartFormFails(form) THEN "invalid_form"
    ELSE IF TrimSpace(form.registration_id) = "" THEN "registration_id_required"
    ELSE IF ~uuidParseOk(TrimSpace(form.registration_id)) THEN "invalid_registration_id"
    ELSE IF TrimSpace(form.file_type) = "" THEN "file_type_required"
    ELSE IF ~form.hasFile THEN "file_required"
    ELSE IF FileTooLarge(form) THEN "file_too_large"
    ELSE IF form.file.len = 0 THEN "empty_file"
    ELSE "ok"

\* Mutant: any well-formed id counts as existing.
registrationExists_AnyUUID(registrationID) == registrationID \in UUIDs

\* SELECT EXISTS (SELECT 1 FROM registration WHERE registration_id = $1)
registrationExists(registrationID) == registrationID \in RegistrationIDs

\* Mutant: the result of the existence query is ignored.
saveRegistrationFileProceeds_Always(registrationID) == TRUE

\* The first statement of saveRegistrationFile decides whether the second runs.
saveRegistrationFileProceeds(registrationID) == registrationExists(registrationID)

\* POST /registration-files up to and including the existence query of
\* saveRegistrationFile; a request that passes waits in inflight for its insert.
registrationFilesHandler(r, dbErr) ==
    LET h     == "registrationFilesHandler"
        code  == registrationFilesCheck(r.form)
        regID == TrimSpace(r.form.registration_id)
        stmt  == <<"SELECT EXISTS registration">>
    IN  /\ Route(r.path) = "registrationFilesHandler"
        /\ IF r.method # "POST" THEN MethodNotAllowed(h, r)
           ELSE IF code # "ok"
           THEN /\ resp' = ErrorResponse(h, r, 400, code, <<>>)
                /\ UNCHANGED <<users, registration, file_upload, inflight, lastCV>>
           ELSE IF dbErr
           THEN /\ resp' = ErrorResponse(h, r, 500, "internal_error", stmt)
                /\ UNCHANGED <<users, registration, file_upload, inflight, lastCV>>
           ELSE IF ~saveRegistrationFileProceeds(regID)
           THEN /\ resp' = ErrorResponse(h, r, 404, "registration_not_found", stmt)
                /\ UNCHANGED <<users, registration, file_upload, inflight, lastCV>>
           ELSE /\ Rows < MaxRows
                /\ inflight' = inflight \cup
                       {[req |-> r, registrationID |-> regID,
                         fileType |-> TrimSpace(r.form.file_type),
                         filename |-> r.form.filename, data |-> r.form.file]}
                /\ UNCHANGED <<users, registration, file_upload, lastCV, resp>>

\* Mutant: file_type and filename are bound to each other's placeholder.
NewFileRow_SwappedArgs(p) ==
    [registration_id |-> p.registrationID, file_type |-> p.filename,
     filename |-> p.fileType, file |-> [valid |-> TRUE, val |-> p.data],
     file_size |-> p.data.len, created_at |-> now(file_upload)]

\* Mutant: file_size is left at 0.
NewFileRow_NoSize(p) ==
    [registration_id |-> p.registrationID, file_type |-> p.fileType,
     filename |-> p.filename, file |-> [valid |-> TRUE, val |-> p.data],
     file_size |-> 0, created_at |-> now(file_upload)]

\* The row INSERT INTO file_upload (...) VALUES ($1..$5) creates.
NewFileRow(p) ==
    [registration_id |-> p.registrationID, file_type |-> p.fileType,
     filename |-> p.filename, file |-> [valid |-> TRUE, val |-> p.data],
     file_size |-> p.data.len, created_at |-> now(file_upload)]

\* Mutant: a failed INSERT is issued a second time before the handler answers.
saveRegistrationFileInsert_Retry(p, id, dbErr) ==
    LET h     == "registrationFilesHandler"
        stmts == <<"SELECT EXISTS registration", "INSERT INTO file_upload">>
    IN  /\ p \in inflight
        /\ inflight' = inflight \ {p}
        /\ IF dbErr
           THEN /\ resp' = ErrorResponse(h, p.req, 500, "internal_error",
                                         Append(stmts, "INSERT INTO file_upload"))
                /\ UNCHANGED <<users, registration, file_upload, lastCV>>
           ELSE /\ id \notin FileIDs
                /\ file_upload' = [i \in FileIDs \cup {id} |->
                                      IF i = id THEN NewFileRow(p) ELSE file_upload[i]]
                /\ resp' = Response(h, p.req, 201, "application/json", NoHeaders,
                                    [status |-> "uploaded", file_id |-> id], stmts)
                /\ UNCHANGED <<users, registration, lastCV>>

\* The INSERT of saveRegistrationFile and the response of the handler.
saveRegistrationFileInsert(p, id, dbErr) ==
    LET h     == "registrationFilesHandler"
        stmts == <<"SELECT EXISTS registration", "INSERT INTO file_upload">>
    IN  /\ p \in inflight
        /\ inflight' = inflight \ {p}
        /\ IF dbErr
           THEN /\ resp' = ErrorResponse(h, p.req, 500, "internal_error", stmts)
                /\ UNCHANGED <<users, registration, file_upload, lastCV>>
           ELSE /\ id \notin FileIDs
                /\ file_upload' = [i \in FileIDs \cup {id} |->
                                      IF i = id THEN NewFileRow(p) ELSE file_upload[i]]
                   /\ resp' = Response(h, p.req, 201, "application/json", NoHeaders,
                                    [status |-> "uploaded", file_id |-> id], stmts)
                /\ UNCHANGED <<users, registration, lastCV>>

\* SELECT ... FROM file_upload WHERE file_id = $1, scanned into a RegistrationFile.
getRegistrationFile(fileID) ==
    IF fileID \in FileIDs
    THEN [err |-> "",
          Filename |-> file_upload[fileID].filename,
          FileSize |-> file_upload[fileID].file_size,
          Data |-> ScanBytes(file_upload[fileID].file)]
    ELSE [err |-> "errFileNotFound", Filename |-> "", FileSize |-> 0,
          Data |-> EmptyBytes]

\* Mutant: the length of the blob is not looked at.
fileMissing_ErrOnly(rf) == rf.err = "errFileNotFound"

\* Whether downloadRegistrationFileHandler treats the fetched record as absent.
fileMissing(rf) == rf.err = "errFileNotFound" \/ rf.Data.len = 0

\* Mutant: an empty result is reported as not found before the error of the
\* query is looked at.
downloadRegistrationFileHandler_NotFoundFirst(r, fileID, dbErr) ==
    LET rf   == getRegistrationFile(fileID)
        h    == "downloadRegistrationFileHandler"
        stmt == <<"SELECT FROM file_upload">>
    IN  /\ resp' =
             IF fileMissing(rf)
             THEN ErrorResponse(h, r, 404, "file_not_found", stmt)
             ELSE IF dbErr THEN ErrorResponse(h, r, 500, "internal_error", stmt)
             ELSE Response(h, r, 200, DetectContentType(rf.Data),
                           [contentDisposition |-> <<"attachment; filename=", rf.Filename>>,
                            contentLength |->
                                IF rf.FileSize > 0 THEN Ptr(rf.FileSize) ELSE Nil],
                           rf.Data, stmt)
        /\ UNCHANGED <<users, registration, file_upload, inflight, lastCV>>

downloadRegistrationFileHandler(r, fileID, dbErr) ==
    LET rf   == getRegistrationFile(fileID)
        h    == "downloadRegistrationFileHandler"
        stmt == <<"SELECT FROM file_upload">>
    IN  /\ resp' =
             IF dbErr THEN ErrorResponse(h, r, 500, "internal_error", stmt)
             ELSE IF fileMissing(rf)
             THEN ErrorResponse(h, r, 404, "file_not_found", stmt)
             ELSE Response(h, r, 200, DetectContentType(rf.Data),
                           [contentDisposition |-> <<"attachment; filename=", rf.Filename>>,
                            contentLength |->
                                IF rf.FileSize > 0 THEN Ptr(rf.FileSize) ELSE Nil],
                           rf.Data, stmt)
        /\ UNCHANGED <<users, registration, file_upload, inflight, lastCV>>

registrationFileHandler(r, dbErr) ==
    /\ Route(r.path) = "registrationFileHandler"
    /\ IF Len(r.path) # 2 \/ r.path[1] # "registration-files"
       THEN NotFound(r)
       ELSE IF ~uuidParseOk(r.path[2])
       THEN /\ resp' = ErrorResponse("registrationFileHandler", r, 400,
                                     "invalid_file_id", <<>>)
            /\ UNCHANGED <<users, registration, file_upload, inflight, lastCV>>
       ELSE IF r.method # "GET" THEN MethodNotAllowed("registrationFileHandler", r)
       ELSE downloadRegistrationFileHandler(r, r.path[2], dbErr)

\* ------------------------------------------------------ ping and catch-all
pingHandler(r) ==
    /\ Route(r.path) = "pingHandler"
    /\ resp' = Response("pingHandler", r, 200, "application/json", NoHeaders,
                        [message |-> "pong v2"], <<>>)
    /\ UNCHANGED <<users, registration, file_upload, inflight, lastCV>>

notFoundHandler(r) ==
    /\ Route(r.path) = "notFoundHandler"
    /\ NotFound(r)

\* ----------------------------------------------------- the requests explored
UserBody(name, age) == [ok |-> TRUE, kind |-> "user", name |-> name, age |-> age]
BadUserBody == [ok |-> FALSE, kind |-> "user", name |-> Nil, age |-> Nil]

Names == {Nil, Ptr(""), Ptr("Ann")}
Ages  == {Nil, Ptr(0), Ptr(7)}

\* The byte strings uploaded: empty, one byte of text, a PDF of exactly the
\* ceiling, a PDF one byte over it, and binary data at the request-body cap.
TextByte == Bytes(1, "text")
PdfAtCeiling == Bytes(maxUploadSize, "%PDF-")
PdfOverCeiling == Bytes(maxUploadSize + 1, "%PDF-")
BinAtBodyCap == Bytes(maxUploadSize + bodySlack, "bin")

Payloads == {EmptyBytes, TextByte, PdfAtCeiling, PdfOverCeiling, BinAtBodyCap}

\* Multipart framing: short part headers, or a long filename and long fields.
ShortFraming == 200
LongFraming  == 1100
Overheads == {ShortFraming, LongFraming}

PartContentTypes == {"application/pdf", "text/plain"}

CVForm(overhead, ctype, file) ==
    MultipartForm(TRUE, overhead, "", "", TRUE, "cv.pdf", ctype, file)

MalformedForm(regId, fileType) ==
    MultipartForm(FALSE, ShortFraming, regId, fileType, FALSE, "", "", EmptyBytes)

FormWithoutFile(regId, fileType) ==
    MultipartForm(TRUE, ShortFraming, regId, fileType, FALSE, "", "", EmptyBytes)

SomeCVForm == CVForm(ShortFraming, "application/pdf", TextByte)

RegistrationBody(fullName, whatsapp, count, opt) ==
    [ok |-> TRUE, kind |-> "registration", full_name |-> fullName,
     job_title |-> opt, address_full |-> opt, whatsapp_number |-> whatsapp,
     note |-> opt, applicant_count |-> count, visa_type |-> opt]

BadRegistrationBody ==
    [ok |-> FALSE, kind |-> "registration", full_name |-> "", job_title |-> Nil,
     address_full |-> Nil, whatsapp_number |-> "", note |-> Nil,
     applicant_count |-> Nil, visa_type |-> Nil]

ApplicantCounts == {Nil, Ptr(-1), Ptr(0), Ptr(1), Ptr(2)}

RegFileForm(overhead, regId, fileType, file) ==
    MultipartForm(TRUE, overhead, regId, fileType, TRUE, "doc.bin", "text/plain", file)

SomeRegFileForm == RegFileForm(ShortFraming, "u1", "idn", TextByte)

\* --- the requests of the single-request specification: every input class
WideUsers ==
    {Request("POST", <<"users">>, j, NoForm) :
        j \in {BadUserBody} \cup {UserBody(n, a) : n \in Names, a \in Ages}}
    \cup {Request(m, <<"users">>, j, NoForm) :
            m \in Methods \ {"POST"}, j \in {NoJSON, UserBody(Ptr("Ann"), Nil)}}

WideUserCV ==
    {Request("POST", <<"users", id, "cv">>, NoJSON, f) :
        id \in {"1", "2"},
        f \in {CVForm(o, c, b) : o \in Overheads, c \in PartContentTypes, b \in Payloads}
              \cup {MalformedForm("", ""), FormWithoutFile("", "")}}
    \cup {Request(m, p, NoJSON, f) :
            m \in Methods,
            p \in {<<"users", id, "cv">> : id \in {"1", "2", "abc"}}
                  \cup {<<"users", "1">>, <<"users", "1", "photo">>},
            f \in {NoForm, SomeCVForm}}

WideRegistrations ==
    {Request("POST", <<"registrations">>, j, NoForm) :
        j \in {BadRegistrationBody}
              \cup {RegistrationBody(n, w, c, o) :
                      n \in {"", " ", "Ann", " Ann "}, w \in {"", " ", "0812"},
                      c \in ApplicantCounts, o \in {Nil, Ptr("x")}}}
    \cup {Request(m, <<"registrations">>, j, NoForm) :
            m \in Methods \ {"POST"},
            j \in {NoJSON, RegistrationBody("Ann", "0812", Nil, Nil)}}

WideRegistrationDetail ==
    {Request(m, p, NoJSON, f) :
        m \in Methods,
        p \in {<<"registrations", id>> : id \in UUIDs \cup {"zz"}}
              \cup {<<"registrations", id, "files">> : id \in {"u1", "zz"}},
        f \in {NoForm, SomeRegFileForm,
               RegFileForm(ShortFraming, "u1", "idn", PdfOverCeiling)}}

WideRegistrationFiles ==
    {Request("POST", <<"registration-files">>, NoJSON, f) :
        f \in {RegFileForm(o, id, " idn ", b) :
                  o \in Overheads, id \in {"u1", "u2"}, b \in Payloads}
              \cup {RegFileForm(ShortFraming, id, "idn", TextByte) :
                      id \in {"", " ", "zz", " u1 "}}
              \cup {RegFileForm(ShortFraming, "u1", t, TextByte) : t \in {"", " "}}
              \cup {RegFileForm(ShortFraming, id, "", b) :
                      id \in {"", "zz", "u2"}, b \in {EmptyBytes, PdfOverCeiling}}
              \cup {MalformedForm(id, t) : id \in {"", "u1"}, t \in {"", "idn"}}
              \cup {FormWithoutFile(id, t) : id \in {"zz", "u1"}, t \in {"", "idn"}}}
    \cup {Request(m, <<"registration-files">>, NoJSON, f) :
            m \in Methods \ {"POST"}, f \in {NoForm, SomeRegFileForm}}

WideRegistrationFile ==
    {Request(m, p, NoJSON, NoForm) :
        m \in Methods,
        p \in {<<"registration-files", id>> : id \in FileUUIDs \cup {"zz"}}
              \cup {<<"registration-files", "f1", "raw">>}}

\* --- the requests of the full specification: what changes or reads the rows
CoreUsers ==
    {Request("POST", <<"users">>, j, NoForm) :
        j \in {BadUserBody, UserBody(Ptr("Ann"), Nil)}}
    \cup {Request(m, <<"users">>, NoJSON, NoForm) : m \in {"GET", "PUT"}}

CoreUserCV ==
    {Request("POST", <<"users", id, "cv">>, NoJSON, f) :
        id \in {"1", "2"},
        f \in {CVForm(ShortFraming, "application/pdf", TextByte),
               CVForm(ShortFraming, "text/plain", PdfAtCeiling),
               CVForm(ShortFraming, "text/plain", TextByte),
               CVForm(ShortFraming, "application/pdf", PdfOverCeiling),
               CVForm(ShortFraming, "application/pdf", EmptyBytes)}}
    \cup {Request("GET", <<"users", id, "cv">>, NoJSON, NoForm) : id \in {"1", "2"}}

CoreRegistrations ==
    {Request("POST", <<"registrations">>, j, NoForm) :
        j \in {RegistrationBody("Ann", "0812", Nil, Nil),
               RegistrationBody("Ann", "0812", Ptr(2), Ptr("x")),
               RegistrationBody("Ann", "0812", Ptr(0), Nil)}}

CoreRegistrationDetail ==
    {Request("GET", <<"registrations", id>>, NoJSON, NoForm) : id \in UUIDs}
    \cup {Request("POST", <<"registrations", "u1", "files">>, NoJSON, SomeRegFileForm)}

CoreRegistrationFiles ==
    {Request("POST", <<"registration-files">>, NoJSON, f) :
        f \in {RegFileForm(ShortFraming, id, " idn ", b) :
                  id \in {"u1", "u2"}, b \in {TextByte, PdfAtCeiling}}
              \cup {RegFileForm(ShortFraming, "u1", "idn", b) :
                      b \in {EmptyBytes, PdfOverCeiling}}}

CoreRegistrationFile ==
    {Request("GET", <<"registration-files", id>>, NoJSON, NoForm) : id \in FileUUIDs}

OtherRequests == {Request(m, <<"health">>, NoJSON, NoForm) : m \in {"GET", "POST"}}

PingRequests == {Request("GET", <<"ping">>, NoJSON, NoForm)}

\* ------------------------------------------------------------ specification
NoResponse ==
    Response("none", Request("GET", <<>>, NoJSON, NoForm), 0, "", NoHeaders, <<>>, <<>>)

LastCVInit == [i \in 1..MaxRows |-> Nil]

\* The service starts against empty tables.
Init ==
    /\ users = <<>>
    /\ registration = <<>>
    /\ file_upload = <<>>
    /\ inflight = {}
    /\ lastCV = LastCVInit
    /\ resp = NoResponse

\* A specification serves any number of requests, or only a first one.
Ready(first) == first => resp = NoResponse

\* One step of the server: a request of one of the given sets is served by the
\* handler the mux routes it to, or an upload in flight runs its insert.
Serve(first, U, C, R, D, F, G) ==
    \/ \E r \in PingRequests : Ready(first) /\ pingHandler(r)
    \/ \E r \in U, dbErr \in BOOLEAN : Ready(first) /\ usersHandler(r, dbErr)
    \/ \E r \in C, dbErr \in BOOLEAN : Ready(first) /\ userCVHandler(r, dbErr)
    \/ \E r \in R, id \in UUIDs, dbErr \in BOOLEAN :
           Ready(first) /\ registrationsHandler(r, id, dbErr)
    \/ \E r \in D, dbErr \in BOOLEAN : Ready(first) /\ registrationDetailHandler(r, dbErr)
    \/ \E r \in F, dbErr \in BOOLEAN : Ready(first) /\ registrationFilesHandler(r, dbErr)
    \/ \E p \in inflight, id \in FileUUIDs, dbErr \in BOOLEAN :
           Ready(first) /\ saveRegistrationFileInsert(p, id, dbErr)
    \/ \E r \in G, dbErr \in BOOLEAN : Ready(first) /\ registrationFileHandler(r, dbErr)
    \/ \E r \in OtherRequests : Ready(first) /\ notFoundHandler(r)

Next ==
    Serve(FALSE, CoreUsers, CoreUserCV, CoreRegistrations, CoreRegistrationDetail,
          CoreRegistrationFiles, CoreRegistrationFile)

Spec == Init /\ [][Next]_vars


\* --------------------------------------- the single-request specification
\* The tables the service may find when it starts: empty; rows this service
\* wrote earlier; rows written by other means, whose blobs may be zero-length.
SeedUser(cv) ==
    [name |-> [valid |-> TRUE, val |-> "Ann"], age |-> NullInt32,
     cv_file |-> cv, created_at |-> 1]

SeedRegistration ==
    [full_name |-> "Ann", job_title |-> NullString, address_full |-> NullString,
     whatsapp_number |-> "0812", note |-> NullString, applicant_count |-> 1,
     visa_type |-> NullString, created_at |-> 1, updated_at |-> 1]

SeedFile(data) ==
    [registration_id |-> "u1", file_type |-> "idn", filename |-> "doc.bin",
     file |-> [valid |-> TRUE, val |-> data], file_size |-> data.len, created_at |-> 1]

NoRows == <<>>

SeedStores ==
    {[users |-> NoRows, registration |-> NoRows, file_upload |-> NoRows],
     [users |-> <<SeedUser(NullBytes)>>,
      registration |-> [i \in {"u1"} |-> SeedRegistration],
      file_upload |-> NoRows],
     [users |-> <<SeedUser([valid |-> TRUE, val |-> PdfAtCeiling])>>,
      registration |-> [i \in {"u1"} |-> SeedRegistration],
      file_upload |-> [i \in {"f1"} |-> SeedFile(TextByte)]],
     [users |-> <<SeedUser([valid |-> TRUE, val |-> EmptyBytes])>>,
      registration |-> [i \in {"u1"} |-> SeedRegistration],
      file_upload |-> [i \in {"f1"} |-> SeedFile(EmptyBytes)]]}

InitSingle ==
    /\ \E s \in SeedStores :
          /\ users = s.users
          /\ registration = s.registration
          /\ file_upload = s.file_upload
    /\ inflight = {}
    /\ lastCV = LastCVInit
    /\ resp = NoResponse

\* One request, of any input class, served against one of the stores.
NextSingle ==
    Serve(TRUE, WideUsers, WideUserCV, WideRegistrations, WideRegistrationDetail,
          WideRegistrationFiles, WideRegistrationFile)

SpecSingle == InitSingle /\ [][NextSingle]_vars


\* ================================================================== claims
ListUsersRequest == Request("GET", <<"users">>, NoJSON, NoForm)

\* The rows of the three tables are what they were.
TablesUnchanged ==
    /\ users' = users
    /\ registration' = registration
    /\ file_upload' = file_upload

\* C1: once a CV upload for a user id was answered 201, and until the next
\* such upload, getUserCV for that id returns exactly the uploaded bytes and
\* the user list reports has_cv with a non-empty download URL; a download
\* answered 200 carries those bytes and a list answered 200 carries the URL.
C1_CVRoundTrip ==
    /\ \A id \in DOMAIN lastCV :
          lastCV[id] # Nil =>
             /\ getUserCV(id) = [err |-> "", cv |-> Deref(lastCV[id])]
             /\ fetchUsers[id].HasCV
             /\ LET u == getUsersBody(ListUsersRequest, fetchUsers)[id]
                IN  /\ u.cv_file_download_url # Nil
                    /\ Deref(u.cv_file_download_url) # <<>>
                    /\ Deref(u.cv_file_download_url)[1] # ""
    /\ (resp.handler = "downloadUserCVHandler" /\ resp.status = 200) =>
          /\ lastCV[ParseInt(resp.req.path[2])] # Nil
          /\ resp.body = Deref(lastCV[ParseInt(resp.req.path[2])])
    /\ (resp.handler = "getUsersHandler" /\ resp.status = 200) =>
          \A i \in DOMAIN resp.body :
             lastCV[resp.body[i].id] # Nil =>
                /\ resp.body[i].cv_file_download_url # Nil
                /\ Deref(resp.body[i].cv_file_download_url) # <<>>

\* A download for user 1 was answered 200 with the bytes last uploaded for it.
C1_Witness ==
    /\ resp.handler = "downloadUserCVHandler"
    /\ resp.status = 200
    /\ resp.req.path = <<"users", "1", "cv">>
    /\ lastCV[1] = Ptr(PdfAtCeiling)
    /\ resp.body = PdfAtCeiling


Blank(s) == s \in {"", " "}

\* A multipart body the reader accepts whose file part is within the ceiling
\* and not empty.
AcceptableFilePart(form) ==
    /\ form.ok
    /\ form.overhead + form.file.len <= maxUploadSize + bodySlack
    /\ form.hasFile
    /\ form.file.len > 0
    /\ form.file.len <= maxUploadSize

\* The three upload endpoints, by path.
UserCVPath(path) == Len(path) = 3 /\ path[1] = "users" /\ path[3] = "cv"
RegistrationFilesPath(path) == path = <<"registration-files">>
RegistrationUploadPath(path) ==
    Len(path) = 3 /\ path[1] = "registrations" /\ path[3] = "files"

\* A POST to an upload endpoint that is valid but for the size of its file part.
ValidUploadButForSize(r) ==
    /\ r.method = "POST"
    /\ r.form.ok
    /\ r.form.hasFile
    /\ \/ UserCVPath(r.path) /\ r.path[2] \in {"1", "2"}
       \/ /\ RegistrationFilesPath(r.path)
          /\ r.form.registration_id \in {"u1", "u2"}
          /\ ~Blank(r.form.file_type)
       \/ /\ RegistrationUploadPath(r.path)
          /\ r.path[2] \in {"u1", "u2"}
          /\ ~Blank(r.form.file_type)

\* C2: on each of the three upload endpoints an upload whose file part is
\* larger than 5 MiB is answered 400 file_too_large and runs no storage
\* statement.
C2_OversizeIsFileTooLarge ==
    (resp.handler # "none" /\ ValidUploadButForSize(resp.req)
        /\ resp.req.form.file.len > maxUploadSize)
    => (IsError(resp, 400, "file_too_large") /\ resp.stmts = <<>>)

\* C3: a registration that decoded and whose applicant_count is omitted is,
\* when its name and number are given, stored in a new row and returned with
\* applicant_count 1; one whose applicant_count is below 1 is answered 400,
\* with the code invalid_applicant_count when its name and number are given,
\* runs no statement and leaves the tables as they were.
C3_ApplicantCount ==
    [][(/\ resp' # resp
        /\ resp'.handler = "createRegistrationHandler"
        /\ resp'.req.json.ok)
       => LET c == resp'.req.json.applicant_count
              named == /\ ~Blank(resp'.req.json.full_name)
                       /\ ~Blank(resp'.req.json.whatsapp_number)
          IN  /\ (c = Nil /\ named) => resp'.status \in {201, 500}
              /\ (c = Nil /\ resp'.status = 201) =>
                    /\ resp'.body.applicant_count = 1
                    /\ resp'.body.registration_id \notin DOMAIN registration
                    /\ resp'.body.registration_id \in DOMAIN registration'
                    /\ registration'[resp'.body.registration_id].applicant_count = 1
              /\ (c # Nil /\ Deref(c) < 1) =>
                    /\ resp'.status = 400
                    /\ named => IsError(resp', 400, "invalid_applicant_count")
                    /\ resp'.stmts = <<>>
                    /\ TablesUnchanged]_vars

\* An omitted count was stored and returned as 1 in a new row.
C3_Witness ==
    /\ resp.handler = "createRegistrationHandler"
    /\ resp.status = 201
    /\ resp.req.json.applicant_count = Nil
    /\ resp.body.applicant_count = 1
    /\ resp.body.registration_id \in DOMAIN registration
    /\ registration[resp.body.registration_id].applicant_count = 1

\* C4: a CV upload that passed the size checks is answered 400
\* invalid_file_type exactly when neither the sniffed type nor the part's
\* Content-Type header is application/pdf, and otherwise reaches the UPDATE;
\* no other endpoint answers invalid_file_type, and a registration file that
\* passed its checks reaches storage whatever its content type.
C4_PdfBySniffOrHeader ==
    /\ (resp.handler = "uploadUserCVHandler" /\ AcceptableFilePart(resp.req.form)) =>
          LET sniffed  == resp.req.form.file.magic = "%PDF-"
              declared == resp.req.form.partContentType = "application/pdf"
          IN  /\ IsError(resp, 400, "invalid_file_type") <=> (~sniffed /\ ~declared)
              /\ (sniffed \/ declared) => resp.stmts = <<"UPDATE users SET cv_file">>
    /\ IsError(resp, 400, "invalid_file_type") => resp.handler = "uploadUserCVHandler"
    /\ (/\ resp.handler = "registrationFilesHandler"
        /\ resp.req.method = "POST"
        /\ AcceptableFilePart(resp.req.form)
        /\ resp.req.form.registration_id \in {"u1", "u2", " u1 "}
        /\ ~Blank(resp.req.form.file_type))
       => resp.stmts # <<>>

\* The header alone sufficed: text bytes declared application/pdf were stored.
C4_Witness ==
    /\ resp.handler = "uploadUserCVHandler"
    /\ resp.status = 201
    /\ resp.req.form.file = TextByte
    /\ resp.req.form.partContentType = "application/pdf"
    /\ users[1].cv_file = [valid |-> TRUE, val |-> TextByte]

\* C5: a registration-file upload that passed validation and names a
\* registration_id no row has is answered 404 registration_not_found (unless
\* the existence query itself failed), and no file row and no pending insert
\* is added.
C5_UnknownRegistration ==
    [][(/\ resp' # resp
        /\ resp'.handler = "registrationFilesHandler"
        /\ resp'.req.method = "POST"
        /\ AcceptableFilePart(resp'.req.form)
        /\ ~Blank(resp'.req.form.file_type)
        /\ resp'.req.form.registration_id \in {"u1", "u2"}
        /\ resp'.req.form.registration_id \notin DOMAIN registration
        /\ resp'.status # 500)
       => /\ IsError(resp', 404, "registration_not_found")
          /\ resp'.stmts = <<"SELECT EXISTS registration">>
          /\ file_upload' = file_upload
          /\ TablesUnchanged]_vars

\* An upload for u2 was answered 404 while u1 exists and has a file.
C5_Witness ==
    /\ resp.handler = "registrationFilesHandler"
    /\ IsError(resp, 404, "registration_not_found")
    /\ resp.req.form.registration_id = "u2"
    /\ "u1" \in DOMAIN registration
    /\ "u2" \notin DOMAIN registration
    /\ file_upload # <<>>

\* C6: every stored file row names a registration that has a row, in every
\* reachable state, the states between the existence query and the insert of
\* an upload included.
C6_FileRefersToRegistration ==
    \A f \in DOMAIN file_upload :
        file_upload[f].registration_id \in DOMAIN registration

\* An upload for u1 was stored while u2 has no row.
C6_Witness ==
    /\ resp.handler = "registrationFilesHandler"
    /\ resp.status = 201
    /\ resp.body.file_id \in DOMAIN file_upload
    /\ file_upload[resp.body.file_id].registration_id = "u1"
    /\ "u1" \in DOMAIN registration
    /\ "u2" \notin DOMAIN registration

\* C7: GET /registration-files/{id} with a well-formed id is answered 404
\* file_not_found, as JSON and without attachment headers, when no row has
\* the id and also when the row's blob has length zero (unless the query
\* itself failed).
C7_MissingOrEmptyFile ==
    (/\ resp.handler = "downloadRegistrationFileHandler"
     /\ resp.req.method = "GET"
     /\ resp.status # 500
     /\ \/ resp.req.path[2] \notin DOMAIN file_upload
        \/ file_upload[resp.req.path[2]].file.val.len = 0)
    => /\ IsError(resp, 404, "file_not_found")
       /\ resp.contentType = "application/json"
       /\ resp.headers = NoHeaders

\* A row with a zero-length blob was asked for and answered 404.
C7_Witness ==
    /\ resp.handler = "downloadRegistrationFileHandler"
    /\ IsError(resp, 404, "file_not_found")
    /\ resp.req.path[2] \in DOMAIN file_upload
    /\ file_upload[resp.req.path[2]].file.val.len = 0

\* A request to a mutating endpoint with a method the endpoint does not accept.
WrongMethod(r) ==
    \/ r.path = <<"users">> /\ r.method \notin {"GET", "POST"}
    \/ UserCVPath(r.path) /\ r.method \notin {"GET", "POST"}
    \/ r.path = <<"registrations">> /\ r.method # "POST"
    \/ RegistrationFilesPath(r.path) /\ r.method # "POST"
    \/ RegistrationUploadPath(r.path) /\ r.method # "POST"

\* C8: a request to a mutating endpoint with a method it does not accept is
\* answered 405 method_not_allowed, whatever its path identifier and body,
\* and runs no storage statement.
C8_WrongMethodIs405 ==
    (resp.handler # "none" /\ WrongMethod(resp.req))
    => (IsError(resp, 405, "method_not_allowed") /\ resp.stmts = <<>>)

\* C9: a user created from a payload that decoded is returned with name and
\* age exactly as submitted, absent or present, and its row holds NULL
\* exactly for the absent ones.
C9_OptionalFieldsMirror ==
    (resp.handler = "createUserHandler" /\ resp.req.json.ok /\ resp.status # 500)
    => /\ resp.status = 201
       /\ resp.body.name = resp.req.json.name
       /\ resp.body.age = resp.req.json.age
       /\ resp.body.id \in DOMAIN users
       /\ users[resp.body.id].name.valid <=> resp.req.json.name # Nil
       /\ users[resp.body.id].age.valid <=> resp.req.json.age # Nil
       /\ resp.req.json.name # Nil =>
             users[resp.body.id].name.val = resp.req.json.name[1]
       /\ resp.req.json.age # Nil =>
             users[resp.body.id].age.val = resp.req.json.age[1]

\* A user was created with an empty name and no age.
C9_Witness ==
    /\ resp.handler = "createUserHandler"
    /\ resp.status = 201
    /\ resp.req.json.name = <<"">>
    /\ resp.req.json.age = <<>>
    /\ resp.body.name = <<"">>
    /\ resp.body.age = <<>>

\* C10: a user list answered 200 has one object per user row, and an object
\* carries cv_file_download_url exactly when the row's cv_file is not NULL.
C10_URLIffHasCV ==
    (resp.handler = "getUsersHandler" /\ resp.status = 200)
    => /\ DOMAIN resp.body = DOMAIN users
       /\ \A i \in DOMAIN resp.body :
             /\ resp.body[i].id \in DOMAIN users
             /\ resp.body[i].cv_file_download_url # <<>>
                   <=> users[resp.body[i].id].cv_file.valid

\* A list of two users, the first with a CV and the second without.
C10_Witness ==
    /\ resp.handler = "getUsersHandler"
    /\ resp.status = 200
    /\ Len(resp.body) = 2
    /\ resp.body[1].cv_file_download_url # <<>>
    /\ resp.body[2].cv_file_download_url = <<>>
    /\ users[1].cv_file.valid
    /\ ~users[2].cv_file.valid

\* C11: every stored registration row has applicant_count >= 1, in every
\* reachable state.
C11_ApplicantCountPositive ==
    \A id \in DOMAIN registration : registration[id].applicant_count >= 1

\* Rows with the default count and with a submitted count are stored, and a
\* count of 0 was just refused.
C11_Witness ==
    /\ \E id \in DOMAIN registration : registration[id].applicant_count = 1
    /\ \E id \in DOMAIN registration : registration[id].applicant_count = 2
    /\ resp.handler = "createRegistrationHandler"
    /\ resp.req.json.applicant_count = <<0>>
    /\ IsError(resp, 400, "invalid_applicant_count")

\* C12: a CV upload that passed validation for a user id no row has is
\* answered 404 user_not_found (unless the UPDATE itself failed), the UPDATE
\* being the only statement run, and no row of any table is created or changed.
C12_UnknownUserCV ==
    [][(/\ resp' # resp
        /\ resp'.handler = "uploadUserCVHandler"
        /\ AcceptableFilePart(resp'.req.form)
        /\ \/ resp'.req.form.file.magic = "%PDF-"
           \/ resp'.req.form.partContentType = "application/pdf"
        /\ ParseInt(resp'.req.path[2]) \notin DOMAIN users
        /\ resp'.status # 500)
       => /\ IsError(resp', 404, "user_not_found")
          /\ resp'.stmts = <<"UPDATE users SET cv_file">>
          /\ TablesUnchanged
          /\ lastCV' = lastCV]_vars

\* An upload for user 2 was answered 404 while user 1 is the only row.
C12_Witness ==
    /\ resp.handler = "uploadUserCVHandler"
    /\ IsError(resp, 404, "user_not_found")
    /\ resp.req.path = <<"users", "2", "cv">>
    /\ DOMAIN users = {1}

\* C13: a POST to /registrations/{id}/files for a registration that has a row,
\* with a valid multipart body, reaches the upload pipeline: it is answered
\* 201 with status uploaded and the id of a file row stored for the
\* registration named in the path (or 500 when storage failed).
C13_PathUploadReachable ==
    (/\ resp.req.method = "POST"
     /\ RegistrationUploadPath(resp.req.path)
     /\ resp.req.path[2] \in DOMAIN registration
     /\ AcceptableFilePart(resp.req.form)
     /\ ~Blank(resp.req.form.file_type))
    => /\ resp.status \in {201, 500}
       /\ resp.status = 201 =>
             /\ resp.body.status = "uploaded"
             /\ resp.body.file_id \in DOMAIN file_upload
             /\ file_upload[resp.body.file_id].registration_id = resp.req.path[2]

\* The step is the service of a request whose storage call failed with
\* something other than a not-found signal.
StorageCallFailed ==
    LET r == resp'.req
    IN  /\ resp'.stmts # <<>>
        /\ \/ usersHandler(r, TRUE)
           \/ userCVHandler(r, TRUE)
           \/ \E id \in UUIDs : registrationsHandler(r, id, TRUE)
           \/ registrationDetailHandler(r, TRUE)
           \/ registrationFilesHandler(r, TRUE)
           \/ \E p \in inflight, id \in FileUUIDs : saveRegistrationFileInsert(p, id, TRUE)
           \/ registrationFileHandler(r, TRUE)

\* C14: on every endpoint a request whose storage call failed is answered
\* 500 with the JSON body {"error": "internal_error"} and nothing else.
C14_StorageFailureIs500 ==
    [][StorageCallFailed =>
          /\ resp'.status = 500
          /\ resp'.contentType = "application/json"
          /\ resp'.body = [error |-> "internal_error"]]_vars

\* The INSERT of a file upload failed after its existence query had passed.
C14_Witness ==
    /\ resp.handler = "registrationFilesHandler"
    /\ resp.status = 500
    /\ resp.body = [error |-> "internal_error"]
    /\ resp.stmts = <<"SELECT EXISTS registration", "INSERT INTO file_upload">>

\* No statement occurs twice in a log of statements.
AttemptedOnce(stmts) ==
    \A i, j \in DOMAIN stmts : i # j => stmts[i] # stmts[j]

C16_DownloadUserCV ==
    (/\ resp.handler = "downloadUserCVHandler"
     /\ resp.req.method = "GET"
     /\ resp.status # 500)
    => LET id == ParseInt(resp.req.path[2])
       IN  IF id \notin DOMAIN users
           THEN IsError(resp, 404, "user_not_found")
           ELSE IF ~users[id].cv_file.valid \/ users[id].cv_file.val.len = 0
           THEN IsError(resp, 404, "cv_not_found")
           ELSE /\ resp.status = 200
                /\ resp.body = users[id].cv_file.val
                /\ resp.contentType = "application/pdf"
                /\ resp.headers.contentDisposition =
                      <<"attachment; filename=", "cv-", resp.req.path[2], ".pdf">>

\* A row whose cv_file is not NULL but empty was asked for and answered
\* cv_not_found.
C16_Witness ==
    /\ resp.handler = "downloadUserCVHandler"
    /\ IsError(resp, 404, "cv_not_found")
    /\ resp.req.path = <<"users", "1", "cv">>
    /\ users[1].cv_file.valid
    /\ users[1].cv_file.val.len = 0

\* The first check of createRegistration a payload fails, in the stated order.
FirstFailingCheck(j) ==
    IF ~j.ok THEN "invalid_json"
    ELSE IF Blank(j.full_name) THEN "full_name_required"
    ELSE IF Blank(j.whatsapp_number) THEN "whatsapp_number_required"
    ELSE IF j.applicant_count # <<>> /\ j.applicant_count[1] < 1
    THEN "invalid_applicant_count"
    ELSE "ok"

\* C17: createRegistration answers 400 with the code of the first check the
\* payload fails in the order invalid_json, full_name_required,
\* whatsapp_number_required, invalid_applicant_count, and then runs no
\* statement; a payload that fails none reaches the INSERT.
C17_CheckOrder ==
    resp.handler = "createRegistrationHandler"
    => LET first == FirstFailingCheck(resp.req.json)
       IN  /\ first # "ok" => (IsError(resp, 400, first) /\ resp.stmts = <<>>)
           /\ first = "ok" => /\ resp.status \in {201, 500}
                              /\ resp.stmts = <<"INSERT INTO registration">>

\* A payload failing all three field checks was answered full_name_required.
C17_Witness ==
    /\ resp.handler = "createRegistrationHandler"
    /\ resp.req.json.ok
    /\ resp.req.json.full_name = " "
    /\ resp.req.json.whatsapp_number = ""
    /\ resp.req.json.applicant_count = <<0>>
    /\ IsError(resp, 400, "full_name_required")

\* C18: a decoded registration whose full_name, or else whose
\* whatsapp_number, is absent, empty or only whitespace is answered 400 with
\* that field's _required code; one where both hold a non-whitespace
\* character and the count is absent or at least 1 is accepted and stored
\* with the strings as submitted.
C18_RequiredStrings ==
    (resp.handler = "createRegistrationHandler" /\ resp.req.json.ok)
    => LET j == resp.req.json
       IN  /\ Blank(j.full_name) => IsError(resp, 400, "full_name_required")
           /\ (~Blank(j.full_name) /\ Blank(j.whatsapp_number))
                 => IsError(resp, 400, "whatsapp_number_required")
           /\ (/\ ~Blank(j.full_name)
               /\ ~Blank(j.whatsapp_number)
               /\ (j.applicant_count = <<>> \/ j.applicant_count[1] >= 1))
              => /\ resp.status \in {201, 500}
                 /\ resp.status = 201 =>
                       /\ resp.body.registration_id \in DOMAIN registration
                       /\ registration[resp.body.registration_id].full_name = j.full_name
                       /\ registration[resp.body.registration_id].whatsapp_number
                             = j.whatsapp_number

\* A name with surrounding blanks was accepted; it is stored as submitted.
C18_Witness ==
    /\ resp.handler = "createRegistrationHandler"
    /\ resp.status = 201
    /\ resp.req.json.full_name = " Ann "
    /\ registration[resp.body.registration_id].full_name = " Ann "

\* C19: a registration-file upload answered 201 stores, under the returned
\* file_id, a new row with exactly the uploaded bytes, the uploaded filename
\* and the file_type without its surrounding blanks; stored rows never
\* change; and GET /registration-files/{file_id} for a stored row is answered
\* 200 with the row's bytes and its filename in the attachment header (unless
\* the query itself failed).
C19_FileRoundTrip ==
    [][/\ (/\ resp' # resp
           /\ resp'.handler = "registrationFilesHandler"
           /\ resp'.status = 201)
          => LET id == resp'.body.file_id
                 f  == resp'.req.form
             IN  /\ resp'.body.status = "uploaded"
                 /\ id \notin DOMAIN file_upload
                 /\ id \in DOMAIN file_upload'
                 /\ file_upload'[id].file = [valid |-> TRUE, val |-> f.file]
                 /\ file_upload'[id].filename = f.filename
                 /\ file_upload'[id].file_type =
                       (IF f.file_type = " idn " THEN "idn" ELSE f.file_type)
       /\ \A id \in DOMAIN file_upload :
             id \in DOMAIN file_upload' /\ file_upload'[id] = file_upload[id]
       /\ (/\ resp'.handler = "downloadRegistrationFileHandler"
           /\ resp'.req.method = "GET"
           /\ resp'.req.path[2] \in DOMAIN file_upload'
           /\ resp'.status # 500)
          => LET row == file_upload'[resp'.req.path[2]]
             IN  /\ resp'.status = 200
                 /\ resp'.body = row.file.val
                 /\ resp'.headers.contentDisposition =
                       <<"attachment; filename=", row.filename>>]_vars

\* The file uploaded as doc.bin with file_type " idn " was downloaded.
C19_Witness ==
    /\ resp.handler = "downloadRegistrationFileHandler"
    /\ resp.status = 200
    /\ resp.req.path[2] \in DOMAIN file_upload
    /\ resp.body = TextByte
    /\ resp.headers.contentDisposition = <<"attachment; filename=", "doc.bin">>
    /\ file_upload[resp.req.path[2]].file_type = "idn"

\* C20: every stored file row has file_size equal to the length of its
\* bytes, between 1 and 5 MiB, and every download answered 200 carries a
\* Content-Length equal to the length of its body.
C20_FileSizeIsLength ==
    /\ \A id \in DOMAIN file_upload :
          /\ file_upload[id].file.valid
          /\ file_upload[id].file_size = file_upload[id].file.val.len
          /\ file_upload[id].file_size >= 1
          /\ file_upload[id].file_size <= 5 * 1024 * 1024
    /\ (resp.handler = "downloadRegistrationFileHandler" /\ resp.status = 200)
       => resp.headers.contentLength = <<resp.body.len>>

\* A stored file of exactly 5 MiB was downloaded with its Content-Length.
C20_Witness ==
    /\ resp.handler = "downloadRegistrationFileHandler"
    /\ resp.status = 200
    /\ resp.body.len = 5 * 1024 * 1024
    /\ resp.headers.contentLength = <<5 * 1024 * 1024>>

\* C21: however CV uploads and CV reads for a user interleave, the stored CV
\* is NULL while no upload has succeeded and afterwards the whole payload of
\* a successful upload, and a read is answered with no CV or with exactly
\* such a payload, never with parts of two.
C21_WholePayloads ==
    /\ \A id \in DOMAIN lastCV :
          lastCV[id] # <<>> =>
             /\ id \in DOMAIN users
             /\ lastCV[id][1] \in {r.form.file : r \in {q \in CoreUserCV : q.method = "POST"}}
    /\ \A id \in DOMAIN users :
          IF lastCV[id] = <<>>
          THEN ~users[id].cv_file.valid
          ELSE users[id].cv_file = [valid |-> TRUE, val |-> lastCV[id][1]]
    /\ (resp.handler = "downloadUserCVHandler" /\ resp.req.method = "GET") =>
          LET id == ParseInt(resp.req.path[2])
          IN  \/ resp.status = 500
              \/ IsError(resp, 404, "user_not_found") /\ id \notin DOMAIN users
              \/ IsError(resp, 404, "cv_not_found") /\ lastCV[id] = <<>>
              \/ /\ resp.status = 200
                 /\ lastCV[id] # <<>>
                 /\ resp.body = lastCV[id][1]

\* The one-byte CV uploaded for user 1 is stored and was read back whole.
C21_Witness ==
    /\ resp.handler = "downloadUserCVHandler"
    /\ resp.status = 200
    /\ resp.req.path = <<"users", "1", "cv">>
    /\ resp.body = TextByte
    /\ users[1].cv_file.val = TextByte

\* The step is the service of a CV upload, whatever its outcome.
CVUploadStep ==
    LET r == resp'.req
    IN  /\ r.method = "POST"
        /\ resp'.handler = "uploadUserCVHandler"
        /\ \E dbErr \in BOOLEAN : userCVHandler(r, dbErr)

\* C22: a CV upload, answered 201 or not, creates and deletes no user row,
\* leaves the name, age and created_at of the addressed row, every other user
\* row and all registration and file rows as they were, and changes the
\* addressed cv_file only when it is answered 201.
C22_CVUploadFrame ==
    [][CVUploadStep =>
          LET id == ParseInt(resp'.req.path[2])
          IN  /\ registration' = registration
              /\ file_upload' = file_upload
              /\ DOMAIN users' = DOMAIN users
              /\ \A i \in DOMAIN users :
                    /\ users'[i].name = users[i].name
                    /\ users'[i].age = users[i].age
                    /\ users'[i].created_at = users[i].created_at
                    /\ i # id => users'[i] = users[i]
              /\ resp'.status \in {400, 404} => users' = users]_vars

\* A CV was stored for user 1 while user 2 and a registration exist.
C22_Witness ==
    /\ resp.handler = "uploadUserCVHandler"
    /\ resp.status = 201
    /\ resp.req.path = <<"users", "1", "cv">>
    /\ DOMAIN users = {1, 2}
    /\ users[1].cv_file.valid
    /\ ~users[2].cv_file.valid
    /\ registration # <<>>

\* The first check of the form-addressed file upload a request fails, in the
\* stated order; the form cannot be read when it is malformed or when the
\* body is longer than the reader allows.
FirstFailingUploadCheck(f) ==
    IF ~f.ok \/ f.overhead + (IF f.hasFile THEN f.file.len ELSE 0) > 5 * 1024 * 1024 + 1024
    THEN "invalid_form"
    ELSE IF Blank(f.registration_id) THEN "registration_id_required"
    ELSE IF f.registration_id \notin {"u1", "u2", " u1 "} THEN "invalid_registration_id"
    ELSE IF Blank(f.file_type) THEN "file_type_required"
    ELSE IF ~f.hasFile THEN "file_required"
    ELSE IF f.file.len > 5 * 1024 * 1024 THEN "file_too_large"
    ELSE IF f.file.len = 0 THEN "empty_file"
    ELSE "ok"

\* C23: POST /registration-files is answered 400 with the code of the first
\* check it fails in the order invalid_form, registration_id_required,
\* invalid_registration_id, file_type_required, file_required,
\* file_too_large, empty_file, and then runs no statement; only a request
\* that fails none reaches the existence query, so registration_not_found
\* is answered to such requests only.
C23_UploadCheckOrder ==
    (resp.handler = "registrationFilesHandler" /\ resp.req.method = "POST")
    => LET first == FirstFailingUploadCheck(resp.req.form)
       IN  /\ first # "ok" => (IsError(resp, 400, first) /\ resp.stmts = <<>>)
           /\ first = "ok" =>
                 /\ resp.status \in {201, 404, 500}
                 /\ resp.stmts # <<>>
                 /\ resp.stmts[1] = "SELECT EXISTS registration"
                 /\ resp.status = 404 => IsError(resp, 404, "registration_not_found")
           /\ IsError(resp, 404, "registration_not_found") => first = "ok"

\* A request failing the id, the type and the size check was answered
\* invalid_registration_id.
C23_Witness ==
    /\ resp.handler = "registrationFilesHandler"
    /\ resp.req.form.registration_id = "zz"
    /\ resp.req.form.file_type = ""
    /\ resp.req.form.file.len > 5 * 1024 * 1024
    /\ IsError(resp, 400, "invalid_registration_id")

\* C24: every stored CV that is not NULL is between 1 byte and 5 MiB long;
\* so a user the list shows with a download URL has bytes to download, and a
\* download for a user whose cv_file is not NULL is answered 200 with a
\* non-empty body, never cv_not_found (unless the query itself failed).
C24_StoredCVNonEmpty ==
    /\ \A id \in DOMAIN users :
          users[id].cv_file.valid =>
             /\ users[id].cv_file.val.len >= 1
             /\ users[id].cv_file.val.len <= 5 * 1024 * 1024
    /\ \A id \in DOMAIN users :
          getUsersBody(ListUsersRequest, fetchUsers)[id].cv_file_download_url # <<>>
             => (getUserCV(id).err = "" /\ getUserCV(id).cv.len >= 1)
    /\ (/\ resp.handler = "downloadUserCVHandler"
        /\ resp.req.method = "GET"
        /\ resp.status # 500
        /\ ParseInt(resp.req.path[2]) \in DOMAIN users
        /\ users[ParseInt(resp.req.path[2])].cv_file.valid)
       => (resp.status = 200 /\ resp.body.len >= 1)

\* The 5 MiB CV of user 2 was downloaded.
C24_Witness ==
    /\ resp.handler = "downloadUserCVHandler"
    /\ resp.status = 200
    /\ resp.req.path = <<"users", "2", "cv">>
    /\ users[2].cv_file.val.len = 5 * 1024 * 1024
    /\ resp.body.len = 5 * 1024 * 1024

\* An upload request on a routed upload endpoint whose form is well formed
\* and whose file part has between 1 byte and 5 MiB.
FilePartWithinLimit(r) ==
    /\ r.method = "POST"
    /\ (UserCVPath(r.path) \/ RegistrationFilesPath(r.path))
    /\ r.form.ok
    /\ r.form.hasFile
    /\ r.form.file.len >= 1
    /\ r.form.file.len <= 5 * 1024 * 1024

\* C25: a well-formed upload whose file part is non-empty and at most 5 MiB
\* is never answered file_too_large or invalid_form, whatever the length of
\* the filename, part headers and other form fields.
C25_NeverRejectedOnSize ==
    (resp.handler \in {"uploadUserCVHandler", "registrationFilesHandler"}
        /\ FilePartWithinLimit(resp.req))
    => (~IsError(resp, 400, "file_too_large") /\ ~IsError(resp, 400, "invalid_form"))

====
